---- MODULE Spec2Model ----
(***************************************************************************)
(* NacosService (src/src/nacosx/core.py): the service-lifecycle controller *)
(* with its foreground path (start, stop, register_with_retry, the scoped  *)
(* acquisition), its background heartbeat threads and the signal handler   *)
(* that runs stop() on the main thread.                                    *)
(*                                                                         *)
(* Every thread is a call stack of frames [fn, pc, locals].  A pc is the   *)
(* source line of the next statement of that function; "ret" is a frame    *)
(* that has computed its return value rv and is about to be popped.  A     *)
(* registry call is two steps: it is begun (the RLock is taken in the same *)
(* step) and it comes back with success or an error.                       *)
(***************************************************************************)
EXTENDS Integers, Sequences, FiniteSets, TLC

\* ---------------------------------------------------------------- bounds
MaxThreads == 2
MaxRetries == 2
MaxFailures == 2
MaxOver == 1
MaxCalls == 3
MaxAddrLen == 3
MaxSignals == 1

Main == 0
HbThreads == 1..MaxThreads
Threads == {Main} \cup HbThreads
Signals == {"SIGINT", "SIGTERM"}

VARIABLES
    stack,          \* thread -> its call stack (sequence of frames)
    exc,            \* thread -> the exception it is propagating, or "none"
    client,         \* self._client is not None
    built,          \* history: the NacosClient objects constructed so far
    registered,     \* self._registered
    stopEvent,      \* self._heartbeat_stop is set
    lockOwner,      \* owner of self._lock (-1: free)
    lockDepth,      \* recursion depth of self._lock
    evLock,         \* owner of the lock inside self._heartbeat_stop (-1: free)
    hbThread,       \* self._heartbeat_thread (0: None, else the thread id)
    nthreads,       \* threads created so far
    orig,           \* signal -> self._orig_sigint / self._orig_sigterm
    handler,        \* signal -> the handler the process has installed
    exited,         \* "running", "exit0" (sys.exit(0)) or "killed"
    nsignals,       \* signals delivered to _handle so far
    cfg,            \* ephemeral, register_retries, heartbeat_max_failures
    wrap,           \* the call of the decorator's wrapper in progress, if any
    member,         \* history: the last membership call that succeeded
    ncalls,         \* foreground calls made so far
    lastCall,       \* history: the last foreground call that completed
    preScope        \* history: the handlers installed when the scope was entered

vars == <<stack, exc, client, built, registered, stopEvent, lockOwner, lockDepth, evLock,
          hbThread, nthreads, orig, handler, exited, nsignals, cfg, wrap, member,
          ncalls, lastCall, preScope>>

\* ---------------------------------------------------------------- frames
Frame(fn, pc) == [fn |-> fn, pc |-> pc, rv |-> "none"]
FStart == Frame("start", "L226") @@ [adds |-> 0, fails |-> 0]
FStop == Frame("stop", "L242") @@ [attempts |-> 0, removes |-> 0]
FRwr(r) == Frame("register_with_retry", "L148") @@
    [retries |-> r, attempt |-> 0, adds |-> 0, fails |-> 0, sleeps |-> 0]
FRegOnce == Frame("_register_once", "L127")
FRemOnce == Frame("_remove_once", "L161")
FInit == Frame("_init_client", "L112")
\* A thread that has been launched and has not yet reported that it runs.
FBoot == Frame("_bootstrap", "boot")
FHb == Frame("_heartbeat_loop", "L174") @@
    [fail_count |-> 0, consec |-> 0, removed |-> FALSE]
FHandle(signum) == Frame("_handle", "L258") @@ [signum |-> signum]
FInstall == Frame("install_signal_handlers", "L278")
FRestore == Frame("restore_signal_handlers", "L290")
FEnter == Frame("__enter__", "L300")
FExit == Frame("__exit__", "L304") @@ [pend |-> "none"]
FWith == Frame("with", "L429") @@ [pend |-> "none"]

Top(t) == stack[t][Len(stack[t])]
Running == exited = "running"

\* A step that reads and writes nothing but its own thread's frames (a call,
\* a return to the caller, time.sleep, join, an exception on its way up)
\* commutes with every step of the other threads, so it is taken as soon as
\* it is enabled: while one thread has such a step, the others wait.
LocalPc(f) ==
    \/ f.pc \in {"raise"}
    \/ f.fn = "register_with_retry" /\ f.pc \in {"L148", "L150", "L155"}
    \/ f.fn = "start" /\ f.pc \in {"L226", "L227", "L234_flag", "L234_exit"}
    \/ f.fn = "stop" /\ f.pc \in {"L243_flag", "L243_exit", "L244", "L249"}
    \/ f.fn = "_heartbeat_loop" /\ f.pc = "L209"
    \/ f.fn = "__enter__" /\ f.pc \in {"L300", "L301"}
    \/ f.fn = "__exit__" /\ f.pc \in {"L304", "L307", "L309"}
    \/ f.fn = "with" /\ f.pc \in {"L429", "exit"}
    \/ f.fn = "_handle" /\ f.pc \in {"L258", "L273"}
\* _handle is installed for some signal, so it can run on the main thread.
SignalsArmed == \E s \in Signals : handler[s] = "ours"
\* The steps between the launch of the heartbeat thread and the return of
\* start (the thread reporting that it runs, the end of the wait in
\* Thread.start(), the log line L237) involve other code only through a signal
\* handler that runs stop() on top of them; they are local when none can run.
SpawnPc(t) ==
    \/ Top(t).fn = "_bootstrap"
    \/ Top(t).fn = "start" /\ Top(t).pc = "L237"
    \/ Top(t).fn = "start" /\ Top(t).pc = "L236" /\ stack[hbThread] # <<FBoot>>
LocalReady(t) ==
    /\ stack[t] # <<>>
    /\ \/ exc[t] # "none"
       \/ LocalPc(Top(t))
       \/ Top(t).pc = "ret" /\ (t = Main \/ Len(stack[t]) > 1)
       \/ SpawnPc(t) /\ ~SignalsArmed
Quiet(t) == \A u \in Threads \ {t} : ~LocalReady(u)

At(t, fn, pc) ==
    /\ Running
    /\ stack[t] # <<>>
    /\ exc[t] = "none"
    /\ Top(t).fn = fn
    /\ Top(t).pc = pc
    /\ Quiet(t)
SetTop(t, f) == [stack EXCEPT ![t] = [@ EXCEPT ![Len(@)] = f]]
Goto(t, pc) == SetTop(t, [Top(t) EXCEPT !.pc = pc])
Ret(t, rv) == SetTop(t, [Top(t) EXCEPT !.pc = "ret", !.rv = rv])
Push(t, f) == [stack EXCEPT ![t] = Append(@, f)]
IsAlive(t) == stack[t] # <<>> /\ stack[t][1].fn # "_bootstrap"
WithTop(s, f) == [s EXCEPT ![Len(s)] = f]

\* ------------------------------------------------- history kept in frames
\* The frames of the innermost signal-handler activation (all of them when
\* no handler is running) count the registry calls made on their behalf.
HandleIdx(s) ==
    LET H == {i \in DOMAIN s : s[i].fn = "_handle"}
    IN IF H = {} THEN 0 ELSE CHOOSE i \in H : \A j \in H : j <= i
Count(f, ev) ==
    IF f.fn = "stop"
    THEN IF ev = "remove" THEN [f EXCEPT !.removes = @ + 1]
         ELSE IF ev = "remove_attempt" THEN [f EXCEPT !.attempts = @ + 1]
         ELSE f
    ELSE IF f.fn = "start"
    THEN IF ev = "add" THEN [f EXCEPT !.adds = @ + 1]
         ELSE IF ev = "add_failed" THEN [f EXCEPT !.fails = @ + 1]
         ELSE f
    ELSE IF f.fn = "register_with_retry"
    THEN IF ev = "add" THEN [f EXCEPT !.adds = @ + 1]
         ELSE IF ev = "add_failed" THEN [f EXCEPT !.fails = @ + 1]
         ELSE IF ev = "sleep" THEN [f EXCEPT !.sleeps = @ + 1]
         ELSE f
    ELSE IF f.fn = "_heartbeat_loop"
    THEN IF ev = "heartbeat_failed" THEN [f EXCEPT !.consec = @ + 1]
         ELSE IF ev \in {"heartbeat_ok", "healed"} THEN [f EXCEPT !.consec = 0]
         ELSE f
    ELSE f
Note(s, ev) ==
    [i \in DOMAIN s |-> IF i > HandleIdx(s) THEN Count(s[i], ev) ELSE s[i]]

\* ------------------------------------------------------------ the RLock
Acquirable(t) == lockOwner \in {-1, t}
Acquire(t) ==
    /\ lockOwner' = t
    /\ lockDepth' = lockDepth + 1
Release ==
    /\ lockDepth' = lockDepth - 1
    /\ lockOwner' = IF lockDepth = 1 THEN -1 ELSE lockOwner
HoldsLock(f) ==
    \/ f.fn = "_init_client" /\ f.pc = "L116"
    \/ f.fn = "_register_once" /\ f.pc = "L128"
    \/ f.fn = "_remove_once" /\ f.pc = "L162"
    \/ f.fn = "_heartbeat_loop" /\ f.pc \in {"L184", "L204"}

\* The lock inside threading.Event (a Condition over a plain Lock, which is
\* not re-entrant): set() and clear() hold it around the change of the flag,
\* wait() takes it to read the flag.
EventFree == evLock = -1
HoldsEvent(f) ==
    \/ f.fn = "start" /\ f.pc \in {"L234_flag", "L234_exit"}
    \/ f.fn = "stop" /\ f.pc \in {"L243_flag", "L243_exit"}

\* A registry call that has been begun and has not come back.
InFlight(f) ==
    \/ f.fn = "_register_once" /\ f.pc = "L128"
    \/ f.fn = "_remove_once" /\ f.pc = "L162"
    \/ f.fn = "_heartbeat_loop" /\ f.pc \in {"L184", "L204"}

ctl == <<client, built, registered, stopEvent, hbThread, nthreads>>
lock == <<lockOwner, lockDepth>>
sig == <<orig, handler, nsignals>>
hist == <<ncalls, lastCall, preScope>>

\* -------------------------------------------------------- _init_client
\* L112-116 without the test of L113: a client is constructed on every call.
InitClientEnterAlways(t) ==
    /\ At(t, "_init_client", "L112")
    /\ Acquirable(t)
    /\ stack' = Goto(t, "L116")
    /\ Acquire(t)
    /\ UNCHANGED <<exc, ctl, sig, exited, evLock, cfg, member, wrap, hist>>

\* L112-113: take the lock; a client that exists is kept.
InitClientEnter(t) ==
    /\ At(t, "_init_client", "L112")
    /\ Acquirable(t)
    /\ IF client
       THEN stack' = Ret(t, "None") /\ UNCHANGED lock
       ELSE stack' = Goto(t, "L116") /\ Acquire(t)
    /\ UNCHANGED <<exc, ctl, sig, exited, evLock, cfg, member, wrap, hist>>

\* L114-122: the constructor returns the client or raises.
InitClientConstruct(t) ==
    /\ At(t, "_init_client", "L116")
    /\ \E ok \in BOOLEAN :
        IF ok
        THEN /\ client' = TRUE
             /\ built' = built + 1
             /\ Release
             /\ stack' = Ret(t, "None")
             /\ UNCHANGED exc
        ELSE /\ exc' = [exc EXCEPT ![t] = "Exception"]
             /\ UNCHANGED <<client, built, lock, stack>>
    /\ UNCHANGED <<registered, stopEvent, hbThread, nthreads, sig, exited, evLock, cfg, member, wrap, hist>>

\* ------------------------------------------------------- _register_once
\* L127-128: take the lock and begin add_naming_instance (AttributeError on a
\* missing client is caught at L138).
RegisterOnceCall(t) ==
    /\ At(t, "_register_once", "L127")
    /\ Acquirable(t)
    /\ IF client
       THEN /\ Acquire(t)
            /\ stack' = [stack EXCEPT ![t] = Note(WithTop(@, [Top(t) EXCEPT !.pc = "L128"]), "add")]
       ELSE /\ stack' = Ret(t, "False")
            /\ UNCHANGED lock
    /\ UNCHANGED <<exc, ctl, sig, exited, evLock, cfg, member, wrap, hist>>

\* L128-134, L138-141: the call comes back; the lock is released.
RegisterOnceResult(t) ==
    /\ At(t, "_register_once", "L128")
    /\ Release
    /\ \E ok \in BOOLEAN :
        IF ok
        THEN /\ stack' = Goto(t, "L135")
             /\ member' = "add"
        ELSE /\ stack' = [stack EXCEPT ![t] =
                   Note(WithTop(@, [Top(t) EXCEPT !.pc = "ret", !.rv = "False"]), "add_failed")]
             /\ UNCHANGED member
    /\ UNCHANGED <<exc, ctl, sig, exited, evLock, cfg, wrap, hist>>

\* L135-137
RegisterOnceFlag(t) ==
    /\ At(t, "_register_once", "L135")
    /\ registered' = TRUE
    /\ stack' = Ret(t, "True")
    /\ UNCHANGED <<exc, client, built, stopEvent, hbThread, nthreads, lock, sig, exited, evLock, cfg, member, wrap, hist>>

\* --------------------------------------------------------- _remove_once
\* L161-162: take the lock and begin remove_naming_instance (AttributeError on
\* a missing client is caught at L166).
RemoveOnceCall(t) ==
    /\ At(t, "_remove_once", "L161")
    /\ Acquirable(t)
    /\ IF client
       THEN /\ Acquire(t)
            /\ stack' = [stack EXCEPT ![t] =
                   Note(Note(WithTop(@, [Top(t) EXCEPT !.pc = "L162"]), "remove_attempt"), "remove")]
       ELSE /\ stack' = [stack EXCEPT ![t] =
                   Note(WithTop(@, [Top(t) EXCEPT !.pc = "ret", !.rv = "False"]), "remove_attempt")]
            /\ UNCHANGED lock
    /\ UNCHANGED <<exc, ctl, sig, exited, evLock, cfg, member, wrap, hist>>

\* L162, L166-169
RemoveOnceResult(t) ==
    /\ At(t, "_remove_once", "L162")
    /\ Release
    /\ \E ok \in BOOLEAN :
        IF ok
        THEN /\ stack' = Goto(t, "L163")
             /\ member' = "remove"
        ELSE /\ stack' = Ret(t, "False")
             /\ UNCHANGED member
    /\ UNCHANGED <<exc, ctl, sig, exited, evLock, cfg, wrap, hist>>

\* L163-165
RemoveOnceFlag(t) ==
    /\ At(t, "_remove_once", "L163")
    /\ registered' = FALSE
    /\ stack' = Ret(t, "True")
    /\ UNCHANGED <<exc, client, built, stopEvent, hbThread, nthreads, lock, sig, exited, evLock, cfg, member, wrap, hist>>

\* -------------------------------------------------- register_with_retry
\* L148
RwrInit(t) ==
    /\ At(t, "register_with_retry", "L148")
    /\ stack' = Push(t, FInit)
    /\ UNCHANGED <<exc, ctl, lock, sig, exited, evLock, cfg, member, wrap, hist>>

\* L150
RwrAttempt(t) ==
    /\ At(t, "register_with_retry", "L150")
    /\ stack' = Push(t, FRegOnce)
    /\ UNCHANGED <<exc, ctl, lock, sig, exited, evLock, cfg, member, wrap, hist>>

\* L153 with "<=" for "<": a sleep and one more attempt follow the last one.
MoreAttemptsInclusive(attempt, retries) == attempt <= retries

\* L153: another attempt follows this one.
MoreAttempts(attempt, retries) == attempt < retries

\* L154-155, L149: sleep, then the next attempt.
RwrSleep(t) ==
    /\ At(t, "register_with_retry", "L155")
    /\ stack' = [stack EXCEPT ![t] =
           Note(WithTop(@, [Top(t) EXCEPT !.pc = "L150", !.attempt = @ + 1]), "sleep")]
    /\ UNCHANGED <<exc, ctl, lock, sig, exited, evLock, cfg, member, wrap, hist>>

\* ---------------------------------------------------------------- start
\* L226
StartInit(t) ==
    /\ At(t, "start", "L226")
    /\ stack' = Push(t, FInit)
    /\ UNCHANGED <<exc, ctl, lock, sig, exited, evLock, cfg, member, wrap, hist>>

\* L227
StartRegister(t) ==
    /\ At(t, "start", "L227")
    /\ stack' = Push(t, FRwr(cfg.register_retries))
    /\ UNCHANGED <<exc, ctl, lock, sig, exited, evLock, cfg, member, wrap, hist>>

\* L233-236 without the test of L233: the thread is created for every
\* descriptor.
StartClearAnyDescriptor(t) ==
    /\ At(t, "start", "L233")
    /\ stack' = Goto(t, "L234")
    /\ UNCHANGED <<exc, ctl, lock, sig, exited, evLock, cfg, member, wrap, hist>>

\* L233
StartClear(t) ==
    /\ At(t, "start", "L233")
    /\ IF cfg.ephemeral
       THEN stack' = Goto(t, "L234")
       ELSE stack' = Ret(t, "None")
    /\ UNCHANGED <<exc, ctl, lock, sig, exited, evLock, cfg, member, wrap, hist>>

\* L234: Event.clear() takes the Event's lock ...
ClearLock(t) ==
    /\ At(t, "start", "L234")
    /\ EventFree
    /\ evLock' = t
    /\ stack' = Goto(t, "L234_flag")
    /\ UNCHANGED <<exc, ctl, lock, sig, exited, cfg, member, wrap, hist>>

\* ... unsets the flag ...
ClearFlag(t) ==
    /\ At(t, "start", "L234_flag")
    /\ stopEvent' = FALSE
    /\ stack' = Goto(t, "L234_exit")
    /\ UNCHANGED <<exc, client, built, registered, hbThread, nthreads, lock, sig, exited, evLock, cfg, member, wrap, hist>>

\* ... and releases the lock.
ClearUnlock(t) ==
    /\ At(t, "start", "L234_exit")
    /\ evLock' = -1
    /\ stack' = Goto(t, "L235")
    /\ UNCHANGED <<exc, ctl, lock, sig, exited, cfg, member, wrap, hist>>

\* L235-236: the Thread object is assigned and Thread.start() launches the
\* thread; start() then waits inside Thread.start() for it to report.
StartSpawn(t) ==
    /\ At(t, "start", "L235")
    /\ nthreads < MaxThreads
    /\ nthreads' = nthreads + 1
    /\ hbThread' = nthreads + 1
    /\ stack' = [Goto(t, "L236") EXCEPT ![nthreads + 1] = <<FBoot>>]
    /\ UNCHANGED <<exc, client, built, registered, stopEvent, lock, sig, exited, evLock, cfg, member, wrap, hist>>

\* The launched thread reports that it runs (is_alive() is true from here on)
\* and enters its target, _heartbeat_loop.
ThreadBootstrap(t) ==
    /\ Running
    /\ stack[t] = <<FBoot>>
    /\ Quiet(t)
    /\ stack' = [stack EXCEPT ![t] = <<FHb>>]
    /\ UNCHANGED <<exc, ctl, lock, sig, exited, evLock, cfg, member, wrap, hist>>

\* L236: Thread.start() returns once the thread has reported.
StartStarted(t) ==
    /\ At(t, "start", "L236")
    /\ stack[hbThread] # <<FBoot>>
    /\ stack' = Goto(t, "L237")
    /\ UNCHANGED <<exc, ctl, lock, sig, exited, evLock, cfg, member, wrap, hist>>

\* L237
StartReturn(t) ==
    /\ At(t, "start", "L237")
    /\ stack' = Ret(t, "None")
    /\ UNCHANGED <<exc, ctl, lock, sig, exited, evLock, cfg, member, wrap, hist>>

\* ----------------------------------------------------------------- stop
\* L242
StopCheck(t) ==
    /\ At(t, "stop", "L242")
    /\ IF hbThread # 0 /\ IsAlive(hbThread)
       THEN stack' = Goto(t, "L243")
       ELSE stack' = Goto(t, "L249")
    /\ UNCHANGED <<exc, ctl, lock, sig, exited, evLock, cfg, member, wrap, hist>>

\* L243: Event.set() takes the Event's lock; a caller that already holds it
\* (a stop() run by _handle on top of a set() or clear() in progress) waits
\* for itself ...
StopSet(t) ==
    /\ At(t, "stop", "L243")
    /\ EventFree
    /\ evLock' = t
    /\ stack' = Goto(t, "L243_flag")
    /\ UNCHANGED <<exc, ctl, lock, sig, exited, cfg, member, wrap, hist>>

\* ... sets the flag and notifies the waiters ...
StopSetFlag(t) ==
    /\ At(t, "stop", "L243_flag")
    /\ stopEvent' = TRUE
    /\ stack' = Goto(t, "L243_exit")
    /\ UNCHANGED <<exc, client, built, registered, hbThread, nthreads, lock, sig, exited, evLock, cfg, member, wrap, hist>>

\* ... and releases the lock.
StopSetUnlock(t) ==
    /\ At(t, "stop", "L243_exit")
    /\ evLock' = -1
    /\ stack' = Goto(t, "L244")
    /\ UNCHANGED <<exc, ctl, lock, sig, exited, cfg, member, wrap, hist>>

\* L244: join returns when the thread has finished or the timeout has passed.
StopJoin(t) ==
    /\ At(t, "stop", "L244")
    /\ stack' = Goto(t, "L249")
    /\ UNCHANGED <<exc, ctl, lock, sig, exited, evLock, cfg, member, wrap, hist>>

\* L249
StopRemove(t) ==
    /\ At(t, "stop", "L249")
    /\ stack' = Push(t, FRemOnce)
    /\ UNCHANGED <<exc, ctl, lock, sig, exited, evLock, cfg, member, wrap, hist>>

\* ------------------------------------------------------ _heartbeat_loop
\* L174
HbWhile(t) ==
    /\ At(t, "_heartbeat_loop", "L174")
    /\ IF stopEvent
       THEN stack' = Ret(t, "None")
       ELSE stack' = Goto(t, "L176")
    /\ UNCHANGED <<exc, ctl, lock, sig, exited, evLock, cfg, member, wrap, hist>>

\* L176-180: Event.wait() reads the flag under the Event's lock.
HbWait(t) ==
    /\ At(t, "_heartbeat_loop", "L176")
    /\ EventFree
    /\ IF stopEvent
       THEN stack' = Ret(t, "None")
       ELSE IF ~cfg.ephemeral
            THEN stack' = Goto(t, "L174")
            ELSE stack' = Goto(t, "L183")
    /\ UNCHANGED <<exc, ctl, lock, sig, exited, evLock, cfg, member, wrap, hist>>

\* L183-184: take the lock and begin send_heartbeat.
HbSendCall(t) ==
    /\ At(t, "_heartbeat_loop", "L183")
    /\ Top(t).fail_count < cfg.heartbeat_max_failures + MaxOver
    /\ Acquirable(t)
    /\ IF client
       THEN /\ Acquire(t)
            /\ stack' = [stack EXCEPT ![t] =
                   Note(WithTop(@, [Top(t) EXCEPT !.pc = "L184"]), "heartbeat")]
       ELSE /\ stack' = [stack EXCEPT ![t] =
                   Note(WithTop(@, [Top(t) EXCEPT !.pc = "L194", !.fail_count = @ + 1]),
                        "heartbeat_failed")]
            /\ UNCHANGED lock
    /\ UNCHANGED <<exc, ctl, sig, exited, evLock, cfg, member, wrap, hist>>

\* L184-191 without L185: a successful send leaves the counter as it is.
HbSendResultNoReset(t) ==
    /\ At(t, "_heartbeat_loop", "L184")
    /\ Release
    /\ \E ok \in BOOLEAN :
        IF ok
        THEN stack' = [stack EXCEPT ![t] =
                 Note(WithTop(@, [Top(t) EXCEPT !.pc = "L174"]), "heartbeat_ok")]
        ELSE stack' = [stack EXCEPT ![t] =
                 Note(WithTop(@, [Top(t) EXCEPT !.pc = "L194", !.fail_count = @ + 1]), "heartbeat_failed")]
    /\ UNCHANGED <<exc, ctl, sig, exited, evLock, cfg, member, wrap, hist>>

\* L185 and L188-191: the send comes back.
HbSendResult(t) ==
    /\ At(t, "_heartbeat_loop", "L184")
    /\ Release
    /\ \E ok \in BOOLEAN :
        IF ok
        THEN stack' = [stack EXCEPT ![t] =
                 Note(WithTop(@, [Top(t) EXCEPT !.pc = "L174", !.fail_count = 0]), "heartbeat_ok")]
        ELSE stack' = [stack EXCEPT ![t] =
                 Note(WithTop(@, [Top(t) EXCEPT !.pc = "L194", !.fail_count = @ + 1]), "heartbeat_failed")]
    /\ UNCHANGED <<exc, ctl, sig, exited, evLock, cfg, member, wrap, hist>>

\* L198 with ">" for ">=": healing starts one failure late.
HealNeededLate(fail_count) == fail_count > cfg.heartbeat_max_failures

\* L198
HealNeeded(fail_count) == fail_count >= cfg.heartbeat_max_failures

\* L194-198
HbRetryWait(t) ==
    /\ At(t, "_heartbeat_loop", "L194")
    /\ EventFree
    /\ IF stopEvent
       THEN stack' = Ret(t, "None")
       ELSE IF HealNeeded(Top(t).fail_count)
            THEN stack' = Goto(t, "L203")
            ELSE stack' = Goto(t, "L174")
    /\ UNCHANGED <<exc, ctl, lock, sig, exited, evLock, cfg, member, wrap, hist>>

\* L203-204: take the lock and begin remove_naming_instance.
HbHealRemoveCall(t) ==
    /\ At(t, "_heartbeat_loop", "L203")
    /\ Acquirable(t)
    /\ IF client
       THEN /\ Acquire(t)
            /\ stack' = [stack EXCEPT ![t] =
                   Note(WithTop(@, [Top(t) EXCEPT !.pc = "L204"]), "remove")]
       ELSE /\ stack' = Goto(t, "L209")
            /\ UNCHANGED lock
    /\ UNCHANGED <<exc, ctl, sig, exited, evLock, cfg, member, wrap, hist>>

\* L204-206: the remove comes back; its outcome is ignored.
HbHealRemoveResult(t) ==
    /\ At(t, "_heartbeat_loop", "L204")
    /\ Release
    /\ \E ok \in BOOLEAN :
        /\ stack' = SetTop(t, [Top(t) EXCEPT !.pc = "L209", !.removed = ok])
        /\ member' = IF ok THEN "remove" ELSE member
    /\ UNCHANGED <<exc, ctl, sig, exited, evLock, cfg, wrap, hist>>

\* L209
HbHealRegister(t) ==
    /\ At(t, "_heartbeat_loop", "L209")
    /\ stack' = [stack EXCEPT ![t] =
           Append(WithTop(@, [Top(t) EXCEPT !.removed = FALSE]), FRwr(cfg.register_retries))]
    /\ UNCHANGED <<exc, ctl, lock, sig, exited, evLock, cfg, member, wrap, hist>>

\* ---------------------------------------------- install_signal_handlers
\* L278-279
InstallSave(t) ==
    /\ At(t, "install_signal_handlers", "L278")
    /\ orig' = handler
    /\ stack' = Goto(t, "L281")
    /\ UNCHANGED <<exc, ctl, lock, handler, nsignals, exited, evLock, cfg, member, wrap, hist>>

\* L281
InstallSigint(t) ==
    /\ At(t, "install_signal_handlers", "L281")
    /\ handler' = [handler EXCEPT !["SIGINT"] = "ours"]
    /\ stack' = Goto(t, "L282")
    /\ UNCHANGED <<exc, ctl, lock, orig, nsignals, exited, evLock, cfg, member, wrap, hist>>

\* L282-283
InstallSigterm(t) ==
    /\ At(t, "install_signal_handlers", "L282")
    /\ handler' = [handler EXCEPT !["SIGTERM"] = "ours"]
    /\ stack' = Ret(t, "None")
    /\ UNCHANGED <<exc, ctl, lock, orig, nsignals, exited, evLock, cfg, member, wrap, hist>>

\* ---------------------------------------------- restore_signal_handlers
\* L290-291
RestoreSigint(t) ==
    /\ At(t, "restore_signal_handlers", "L290")
    /\ handler' = IF orig["SIGINT"] # "None"
                  THEN [handler EXCEPT !["SIGINT"] = orig["SIGINT"]]
                  ELSE handler
    /\ stack' = Goto(t, "L292")
    /\ UNCHANGED <<exc, ctl, lock, orig, nsignals, exited, evLock, cfg, member, wrap, hist>>

\* L292-294
RestoreSigterm(t) ==
    /\ At(t, "restore_signal_handlers", "L292")
    /\ handler' = IF orig["SIGTERM"] # "None"
                  THEN [handler EXCEPT !["SIGTERM"] = orig["SIGTERM"]]
                  ELSE handler
    /\ stack' = Ret(t, "None")
    /\ UNCHANGED <<exc, ctl, lock, orig, nsignals, exited, evLock, cfg, member, wrap, hist>>

\* ------------------------------------------------- __enter__ / __exit__
\* L300
EnterInstall(t) ==
    /\ At(t, "__enter__", "L300")
    /\ stack' = Push(t, FInstall)
    /\ UNCHANGED <<exc, ctl, lock, sig, exited, evLock, cfg, member, wrap, hist>>

\* L301
EnterStart(t) ==
    /\ At(t, "__enter__", "L301")
    /\ stack' = Push(t, FStart)
    /\ UNCHANGED <<exc, ctl, lock, sig, exited, evLock, cfg, member, wrap, hist>>

\* L304-306: __exit__ is entered; it is not yet inside its try.
ExitEnter(t) ==
    /\ At(t, "__exit__", "L304")
    /\ stack' = Goto(t, "L307")
    /\ UNCHANGED <<exc, ctl, lock, sig, exited, evLock, cfg, member, wrap, hist>>

\* L307
ExitStop(t) ==
    /\ At(t, "__exit__", "L307")
    /\ stack' = Push(t, FStop)
    /\ UNCHANGED <<exc, ctl, lock, sig, exited, evLock, cfg, member, wrap, hist>>

\* L309
ExitRestore(t) ==
    /\ At(t, "__exit__", "L309")
    /\ stack' = Push(t, FRestore)
    /\ UNCHANGED <<exc, ctl, lock, sig, exited, evLock, cfg, member, wrap, hist>>

\* ------------------------------------------- the scope, "with nacos_svc:"
\* L429: __enter__ is called; when it raises, __exit__ is not called.
WithEnter(t) ==
    /\ At(t, "with", "L429")
    /\ stack' = Push(t, FEnter)
    /\ UNCHANGED <<exc, ctl, lock, sig, exited, evLock, cfg, member, wrap, hist>>

\* L430: the wrapped work returns or raises.
WithBody(t) ==
    /\ At(t, "with", "L430")
    /\ \E e \in {"none", "Exception"} :
        stack' = SetTop(t, [Top(t) EXCEPT !.pc = "exit", !.pend = e])
    /\ UNCHANGED <<exc, ctl, lock, sig, exited, evLock, cfg, member, wrap, hist>>

\* Leaving the block calls __exit__.
WithExit(t) ==
    /\ At(t, "with", "exit")
    /\ stack' = Push(t, FExit)
    /\ UNCHANGED <<exc, ctl, lock, sig, exited, evLock, cfg, member, wrap, hist>>

\* The exception a finally clause or a with block held back is raised again.
Reraise(t) ==
    /\ Running
    /\ stack[t] # <<>>
    /\ exc[t] = "none"
    /\ Top(t).pc = "raise"
    /\ exc' = [exc EXCEPT ![t] = Top(t).pend]
    /\ UNCHANGED <<stack, ctl, lock, sig, exited, evLock, cfg, member, wrap, hist>>

\* -------------------------------------------------------------- _handle
\* A signal whose installed handler is _handle runs it on the main thread,
\* on top of whatever the main thread was doing: before any statement of any
\* frame (the entry of __exit__ at L304, outside its try, and a running
\* _handle included), and between foreground calls.
Signal(s) ==
    /\ Running
    /\ \A u \in HbThreads : ~LocalReady(u)
    /\ nsignals < MaxSignals
    /\ handler[s] = "ours"
    /\ exc[Main] = "none"
    /\ nsignals' = nsignals + 1
    /\ stack' = Push(Main, FHandle(s))
    /\ UNCHANGED <<exc, ctl, lock, orig, handler, exited, evLock, cfg, member, wrap, hist>>

\* L257-258
HandleStop(t) ==
    /\ At(t, "_handle", "L258")
    /\ stack' = Push(t, FStop)
    /\ UNCHANGED <<exc, ctl, lock, sig, exited, evLock, cfg, member, wrap, hist>>

Truthy(h) == h \notin {"None", "SIG_DFL"}
Callable(h) == h \in {"callable", "ours"}

\* L263-269: the captured handler is called; an Exception it raises is
\* swallowed, a KeyboardInterrupt (signal.default_int_handler) is not.
HandleOrig(t) ==
    /\ At(t, "_handle", "L263")
    /\ LET o == orig[Top(t).signum] IN
       IF Truthy(o) /\ Callable(o)
       THEN \E out \in {"returns", "Exception", "KeyboardInterrupt"} :
               IF out = "KeyboardInterrupt"
               THEN exc' = [exc EXCEPT ![t] = out] /\ UNCHANGED stack
               ELSE stack' = Goto(t, "L273") /\ UNCHANGED exc
       ELSE stack' = Goto(t, "L273") /\ UNCHANGED exc
    /\ UNCHANGED <<ctl, lock, sig, exited, evLock, cfg, member, wrap, hist>>

\* L272-275
HandleExit(t) ==
    /\ At(t, "_handle", "L273")
    /\ exc' = [exc EXCEPT ![t] = "SystemExit"]
    /\ UNCHANGED <<stack, ctl, lock, sig, exited, evLock, cfg, member, wrap, hist>>

\* ------------------------------------------------- returns and exceptions
\* What each caller does with the value its callee returned.
\* start without L228-230: the outcome of the registration is not looked at.
ResumeStartRegardless(c, rv) ==
    IF c.pc = "L226" THEN [c EXCEPT !.pc = "L227"]
    ELSE [c EXCEPT !.pc = "L233"]

\* start, L226-230
ResumeStart(c, rv) ==
    IF c.pc = "L226" THEN [c EXCEPT !.pc = "L227"]
    ELSE IF rv = "True" THEN [c EXCEPT !.pc = "L233"]
    ELSE [c EXCEPT !.pc = "ret", !.rv = "None"]

\* register_with_retry, L148-156
ResumeRwr(c, rv) ==
    IF c.pc = "L148"
    THEN IF c.retries >= 1
         THEN [c EXCEPT !.pc = "L150", !.attempt = 1]
         ELSE [c EXCEPT !.pc = "ret", !.rv = "False"]
    ELSE IF rv = "True"
         THEN [c EXCEPT !.pc = "ret", !.rv = "True"]
         ELSE IF MoreAttempts(c.attempt, c.retries)
              THEN [c EXCEPT !.pc = "L155"]
              ELSE [c EXCEPT !.pc = "ret", !.rv = "False"]

\* stop, L249-251
ResumeStop(c, rv) == [c EXCEPT !.pc = "ret", !.rv = "None"]

\* _heartbeat_loop, L209-214 with L212 on both branches: the counter is reset
\* whatever the outcome.
ResumeHbAlwaysReset(c, rv) == [c EXCEPT !.pc = "L174", !.fail_count = 0]

\* _heartbeat_loop, L209-214
ResumeHb(c, rv) ==
    IF rv = "True"
    THEN [c EXCEPT !.pc = "L174", !.fail_count = 0]
    ELSE [c EXCEPT !.pc = "L174"]

\* _handle, L258-263
ResumeHandle(c, rv) == [c EXCEPT !.pc = "L263"]

\* __enter__, L300-302
ResumeEnter(c, rv) ==
    IF c.pc = "L300" THEN [c EXCEPT !.pc = "L301"]
    ELSE [c EXCEPT !.pc = "ret", !.rv = "self"]

\* __exit__, L306-309: after the finally clause a held-back exception goes on.
ResumeExit(c, rv) ==
    IF c.pc = "L307" THEN [c EXCEPT !.pc = "L309"]
    ELSE IF c.pend # "none" THEN [c EXCEPT !.pc = "raise"]
    ELSE [c EXCEPT !.pc = "ret", !.rv = "None"]

\* the with block, L429-430: __exit__ returned None, so the body's exception
\* goes on.
ResumeWith(c, rv) ==
    IF c.pc = "L429" THEN [c EXCEPT !.pc = "L430"]
    ELSE IF c.pend # "none" THEN [c EXCEPT !.pc = "raise"]
    ELSE [c EXCEPT !.pc = "ret", !.rv = "None"]

Resume(c, rv) ==
    IF c.fn = "start" THEN ResumeStart(c, rv)
    ELSE IF c.fn = "register_with_retry" THEN ResumeRwr(c, rv)
    ELSE IF c.fn = "stop" THEN ResumeStop(c, rv)
    ELSE IF c.fn = "_heartbeat_loop" THEN ResumeHb(c, rv)
    ELSE IF c.fn = "_handle" THEN ResumeHandle(c, rv)
    ELSE IF c.fn = "__enter__" THEN ResumeEnter(c, rv)
    ELSE IF c.fn = "__exit__" THEN ResumeExit(c, rv)
    ELSE IF c.fn = "with" THEN ResumeWith(c, rv)
    ELSE c

NoteReturn(c, callee) ==
    IF c.fn = "_heartbeat_loop" /\ callee.fn = "register_with_retry" /\ callee.rv = "True"
    THEN Count(c, "healed")
    ELSE c

\* A frame returns: it is popped and its caller goes on; the bottom frame of
\* the main thread ends the foreground call, that of a heartbeat thread ends
\* the thread.
Return(t) ==
    /\ Running
    /\ stack[t] # <<>>
    /\ exc[t] = "none"
    /\ Top(t).pc = "ret"
    /\ Quiet(t)
    /\ LET n == Len(stack[t])
           f == Top(t)
       IN IF n = 1
          THEN /\ stack' = [stack EXCEPT ![t] = <<>>]
               /\ lastCall' = IF t = Main THEN f.fn ELSE lastCall
          ELSE /\ stack' = [stack EXCEPT ![t] =
                      WithTop(SubSeq(@, 1, n - 1), NoteReturn(Resume(@[n - 1], f.rv), f))]
               /\ UNCHANGED lastCall
    /\ UNCHANGED <<exc, ctl, lock, sig, exited, evLock, cfg, member, wrap, ncalls, preScope>>

\* The except clauses: "except Exception" at L138, L166, L188, L205, L215,
\* L245, L250 and L259.
Catches(f, e) ==
    /\ e = "Exception"
    /\ \/ f.fn \in {"_register_once", "_remove_once", "stop"}
       \/ f.fn = "_heartbeat_loop" /\ f.pc \in {"L183", "L184", "L203", "L204", "L209"}
       \/ f.fn = "_handle" /\ f.pc = "L258"
Caught(f) ==
    IF f.fn \in {"_register_once", "_remove_once"}
    THEN [f EXCEPT !.pc = "ret", !.rv = "False"]
    ELSE IF f.fn = "stop"
    THEN IF f.pc = "L249" THEN [f EXCEPT !.pc = "ret", !.rv = "None"]
         ELSE [f EXCEPT !.pc = "L249"]
    ELSE IF f.fn = "_heartbeat_loop"
    THEN IF f.pc \in {"L183", "L184"}
         THEN Count([f EXCEPT !.pc = "L194", !.fail_count = @ + 1], "heartbeat_failed")
         ELSE IF f.pc \in {"L203", "L204"}
         THEN [f EXCEPT !.pc = "L209"]
         ELSE [f EXCEPT !.pc = "L174"]
    ELSE [f EXCEPT !.pc = "L263"]
\* The finally clause of __exit__ (L308) and the with block, which calls
\* __exit__ when its body raises.
Finally(f) ==
    \/ f.fn = "__exit__" /\ f.pc = "L307"
    \/ f.fn = "with" /\ f.pc = "L430"
Finalized(f, e) ==
    IF f.fn = "__exit__"
    THEN [f EXCEPT !.pc = "L309", !.pend = e]
    ELSE [f EXCEPT !.pc = "exit", !.pend = e]

\* An exception reaches the top frame: it is caught, or held back by a finally
\* clause, or the frame is left (a with-lock block releases the lock).  An
\* Exception that leaves the foreground call goes to its caller; SystemExit and
\* KeyboardInterrupt end the process.
Unwind(t) ==
    /\ Running
    /\ stack[t] # <<>>
    /\ exc[t] # "none"
    /\ LET n == Len(stack[t])
           f == Top(t)
           e == exc[t]
       IN /\ IF HoldsLock(f) THEN Release ELSE UNCHANGED lock
          /\ evLock' = IF HoldsEvent(f) THEN -1 ELSE evLock
          /\ IF Catches(f, e)
             THEN /\ stack' = SetTop(t, Caught(f))
                  /\ exc' = [exc EXCEPT ![t] = "none"]
                  /\ UNCHANGED <<exited, lastCall>>
             ELSE IF Finally(f)
             THEN /\ stack' = SetTop(t, Finalized(f, e))
                  /\ exc' = [exc EXCEPT ![t] = "none"]
                  /\ UNCHANGED <<exited, lastCall>>
             ELSE /\ stack' = [stack EXCEPT ![t] = SubSeq(@, 1, n - 1)]
                  /\ exc' = IF n = 1 THEN [exc EXCEPT ![t] = "none"] ELSE exc
                  /\ exited' = IF n = 1 /\ t = Main /\ e # "Exception"
                               THEN (IF e = "SystemExit" THEN "exit0" ELSE "killed")
                               ELSE exited
                  /\ lastCall' = IF n = 1 /\ t = Main THEN f.fn ELSE lastCall
    /\ UNCHANGED <<ctl, sig, cfg, member, wrap, ncalls, preScope>>

\* ------------------------------------------------- the foreground's calls
Idle ==
    /\ Running
    /\ ncalls < MaxCalls
    /\ stack[Main] = <<>>
    /\ exc[Main] = "none"
    /\ Quiet(Main)

CallStart ==
    /\ Idle
    /\ nthreads < MaxThreads
    /\ stack' = [stack EXCEPT ![Main] = <<FStart>>]
    /\ ncalls' = ncalls + 1
    /\ UNCHANGED <<exc, ctl, lock, sig, exited, evLock, cfg, member, wrap, lastCall, preScope>>

CallStop ==
    /\ Idle
    /\ stack' = [stack EXCEPT ![Main] = <<FStop>>]
    /\ ncalls' = ncalls + 1
    /\ UNCHANGED <<exc, ctl, lock, sig, exited, evLock, cfg, member, wrap, lastCall, preScope>>

CallRegisterWithRetry ==
    /\ Idle
    /\ \E r \in 0..MaxRetries :
        stack' = [stack EXCEPT ![Main] = <<FRwr(r)>>]
    /\ ncalls' = ncalls + 1
    /\ UNCHANGED <<exc, ctl, lock, sig, exited, evLock, cfg, member, wrap, lastCall, preScope>>

\* The block is entered while the process's handlers are not _handle.
CallWith ==
    /\ Idle
    /\ ncalls = 0
    /\ \A s \in Signals : handler[s] # "ours"
    /\ preScope' = handler
    /\ stack' = [stack EXCEPT ![Main] = <<FWith>>]
    /\ ncalls' = ncalls + 1
    /\ UNCHANGED <<exc, ctl, lock, sig, exited, evLock, cfg, member, wrap, lastCall>>

\* --------------------------------------- nacos_registry: the wrapper
\* A string is a sequence of characters.
Chars == {"8", ":", "a", "-"}
Digits == {"0", "1", "2", "3", "4", "5", "6", "7", "8", "9"}
Strings == UNION {[1..n -> Chars] : n \in 0..MaxAddrLen}

\* ':' in s
HasColon(s) == \E i \in DOMAIN s : s[i] = ":"
\* s.rsplit(':', 1) for a string that has a colon
RSplit(s) ==
    LET k == CHOOSE i \in DOMAIN s : s[i] = ":" /\ \A j \in DOMAIN s : s[j] = ":" => j <= i
    IN <<SubSeq(s, 1, k - 1), SubSeq(s, k + 1, Len(s))>>
\* int(s) does not raise ValueError: an optional sign and at least one digit
\* (the blanks and underscores int() also accepts are not in Chars).
IsInt(s) ==
    LET body == IF s # <<>> /\ s[1] \in {"-", "+"} THEN Tail(s) ELSE s
    IN body # <<>> /\ \A i \in DOMAIN body : body[i] \in Digits
DigitValue(c) == CHOOSE v \in 0..9 : <<"0", "1", "2", "3", "4", "5", "6", "7", "8", "9">>[v + 1] = c
RECURSIVE Magnitude(_)
Magnitude(s) ==
    IF s = <<>> THEN 0 ELSE 10 * Magnitude(SubSeq(s, 1, Len(s) - 1)) + DigitValue(s[Len(s)])
\* int(s) for a string on which it does not raise
ParseInt(s) ==
    IF s[1] = "-" THEN 0 - Magnitude(Tail(s))
    ELSE IF s[1] = "+" THEN Magnitude(Tail(s))
    ELSE Magnitude(s)

\* No wrapper call is in progress: the controller is driven directly.
Unwrapped ==
    [pc |-> "none", enabled |-> TRUE, nacos_addr |-> <<>>, service_name |-> <<>>,
     service_addr |-> <<>>, raise_on_register_fail |-> TRUE,
     calls |-> 0, made |-> 0, out |-> "none", service_ip |-> <<>>, service_port |-> 0]
\* The decorator's arguments, L320-336, at the call of the wrapper, L368.
WrapperCalls ==
    {[Unwrapped EXCEPT !.pc = "L369", !.enabled = e, !.nacos_addr = n,
                       !.service_name = sn, !.service_addr = sa,
                       !.raise_on_register_fail = r] :
        e \in BOOLEAN, n \in {<<>>, <<"a">>}, sn \in {<<>>, <<"a">>},
        sa \in Strings, r \in BOOLEAN}

\* _call_func(func, ...) and return, L370 and L379, L387, L395, L406
CallFunc(w) == [w EXCEPT !.pc = "done", !.calls = @ + 1, !.out = "returned"]
\* L375-379, L383-387, L391-395, L402-406
Reject(w) ==
    IF w.raise_on_register_fail
    THEN [w EXCEPT !.pc = "done", !.out = "ValueError"]
    ELSE CallFunc(w)

\* L369-370
WrapperEnabled ==
    /\ wrap.pc = "L369"
    /\ wrap' = IF ~wrap.enabled THEN CallFunc(wrap) ELSE [wrap EXCEPT !.pc = "L373"]
    /\ UNCHANGED <<stack, exc, ctl, lock, sig, exited, evLock, cfg, member, hist>>

\* L373-379 without the test of L373: the address is not looked at.
WrapperNacosAddrUnchecked ==
    /\ wrap.pc = "L373"
    /\ wrap' = [wrap EXCEPT !.pc = "L381"]
    /\ UNCHANGED <<stack, exc, ctl, lock, sig, exited, evLock, cfg, member, hist>>

\* L373-379
WrapperNacosAddr ==
    /\ wrap.pc = "L373"
    /\ wrap' = IF wrap.nacos_addr = <<>> THEN Reject(wrap) ELSE [wrap EXCEPT !.pc = "L381"]
    /\ UNCHANGED <<stack, exc, ctl, lock, sig, exited, evLock, cfg, member, hist>>

\* L381-387
WrapperServiceName ==
    /\ wrap.pc = "L381"
    /\ wrap' = IF wrap.service_name = <<>> THEN Reject(wrap) ELSE [wrap EXCEPT !.pc = "L389"]
    /\ UNCHANGED <<stack, exc, ctl, lock, sig, exited, evLock, cfg, member, hist>>

\* L389-395
WrapperServiceAddr ==
    /\ wrap.pc = "L389"
    /\ wrap' = IF wrap.service_addr = <<>> \/ ~HasColon(wrap.service_addr)
               THEN Reject(wrap)
               ELSE [wrap EXCEPT !.pc = "L397"]
    /\ UNCHANGED <<stack, exc, ctl, lock, sig, exited, evLock, cfg, member, hist>>

\* L397-406
WrapperPort ==
    /\ wrap.pc = "L397"
    /\ LET parts == RSplit(wrap.service_addr) IN
       wrap' = IF IsInt(parts[2])
               THEN [wrap EXCEPT !.pc = "L409", !.service_ip = parts[1],
                                 !.service_port = ParseInt(parts[2])]
               ELSE Reject([wrap EXCEPT !.service_ip = parts[1]])
    /\ UNCHANGED <<stack, exc, ctl, lock, sig, exited, evLock, cfg, member, hist>>

\* L409-425: the controller is constructed; "with nacos_svc:" follows.
WrapperConstruct ==
    /\ wrap.pc = "L409"
    /\ wrap' = [wrap EXCEPT !.pc = "L429", !.made = @ + 1]
    /\ UNCHANGED <<stack, exc, ctl, lock, sig, exited, evLock, cfg, member, hist>>

\* ------------------------------------------------------------------ Init
\* The handlers a Python process starts with: signal.default_int_handler for
\* SIGINT and SIG_DFL for SIGTERM.
PythonHandlers == [s \in Signals |-> IF s = "SIGINT" THEN "callable" ELSE "SIG_DFL"]
\* Handlers an embedding program has set: SIG_IGN, and one installed from C,
\* for which signal.getsignal returns None.
EmbeddedHandlers == [s \in Signals |-> IF s = "SIGINT" THEN "SIG_IGN" ELSE "None"]

Configs ==
    [ephemeral : BOOLEAN,
     register_retries : 1..MaxRetries,
     heartbeat_max_failures : 1..MaxFailures]

\* __init__, L71-93
Constructed(h) ==
    /\ stack = [t \in Threads |-> <<>>]
    /\ exc = [t \in Threads |-> "none"]
    /\ client = FALSE
    /\ built = 0
    /\ member = "none"
    /\ registered = FALSE
    /\ stopEvent = FALSE
    /\ lockOwner = -1
    /\ lockDepth = 0
    /\ evLock = -1
    /\ hbThread = 0
    /\ nthreads = 0
    /\ orig = [s \in Signals |-> "None"]
    /\ handler = h
    /\ exited = "running"
    /\ nsignals = 0
    /\ cfg \in Configs
    /\ ncalls = 0
    /\ lastCall = "none"
    /\ preScope = handler

Init == Constructed(PythonHandlers) /\ wrap = Unwrapped

InitScope ==
    /\ \E h \in {PythonHandlers, EmbeddedHandlers} : Constructed(h)
    /\ wrap = Unwrapped

Step(t) ==
    \/ InitClientEnter(t) \/ InitClientConstruct(t)
    \/ RegisterOnceCall(t) \/ RegisterOnceResult(t) \/ RegisterOnceFlag(t)
    \/ RemoveOnceCall(t) \/ RemoveOnceResult(t) \/ RemoveOnceFlag(t)
    \/ RwrInit(t) \/ RwrAttempt(t) \/ RwrSleep(t)
    \/ Return(t) \/ Unwind(t)

Lifecycle(t) ==
    \/ StartInit(t) \/ StartRegister(t) \/ StartClear(t)
    \/ ClearLock(t) \/ ClearFlag(t) \/ ClearUnlock(t) \/ StartSpawn(t)
    \/ StartStarted(t) \/ StartReturn(t)
    \/ StopCheck(t) \/ StopSet(t) \/ StopSetFlag(t) \/ StopSetUnlock(t)
    \/ StopJoin(t) \/ StopRemove(t)

HbStep(t) ==
    \/ HbWhile(t) \/ HbWait(t) \/ HbSendCall(t) \/ HbSendResult(t) \/ HbRetryWait(t)
    \/ HbHealRemoveCall(t) \/ HbHealRemoveResult(t) \/ HbHealRegister(t)
    \/ ThreadBootstrap(t)

ScopeStep(t) ==
    \/ InstallSave(t) \/ InstallSigint(t) \/ InstallSigterm(t)
    \/ RestoreSigint(t) \/ RestoreSigterm(t)
    \/ EnterInstall(t) \/ EnterStart(t) \/ ExitEnter(t) \/ ExitStop(t) \/ ExitRestore(t)
    \/ WithEnter(t) \/ WithBody(t) \/ WithExit(t) \/ Reraise(t)
    \/ HandleStop(t) \/ HandleOrig(t) \/ HandleExit(t)

\* The controller driven by hand: start, stop and register_with_retry called
\* from the foreground, with the heartbeat threads start creates.
Next ==
    \/ CallStart \/ CallStop \/ CallRegisterWithRetry
    \/ \E t \in Threads : Step(t)
    \/ Lifecycle(Main)
    \/ \E t \in HbThreads : HbStep(t)

Spec == Init /\ [][Next]_vars

\* The controller used as the decorator uses it (L409-430): constructed, then
\* "with nacos_svc:" around the wrapped work, with signals arriving.
NextScope ==
    \/ CallWith
    \/ \E s \in Signals : Signal(s)
    \/ \E t \in Threads : Step(t)
    \/ Lifecycle(Main)
    \/ ScopeStep(Main)
    \/ \E t \in HbThreads : HbStep(t)

SpecScope == InitScope /\ [][NextScope]_vars

\* Every thread that can take a step eventually takes one, and every registry
\* call comes back.
Fairness ==
    /\ WF_vars(Step(Main) \/ Lifecycle(Main))
    /\ \A t \in HbThreads : WF_vars(Step(t) \/ HbStep(t))

\* The controller driven by start and stop, under fair scheduling.
NextLive ==
    \/ CallStart \/ CallStop
    \/ \E t \in Threads : Step(t)
    \/ Lifecycle(Main)
    \/ \E t \in HbThreads : HbStep(t)

SpecLive == Init /\ [][NextLive]_vars /\ Fairness

\* The scope under fair scheduling; the arrival of a signal is not forced.
SpecScopeLive == SpecScope /\ Fairness /\ WF_vars(ScopeStep(Main))

\* The wrapper up to the construction of the controller (L368-425).
InitWrapper ==
    /\ Constructed(PythonHandlers)
    /\ cfg = [ephemeral |-> TRUE, register_retries |-> 1, heartbeat_max_failures |-> 1]
    /\ wrap \in WrapperCalls

NextWrapper ==
    \/ WrapperEnabled \/ WrapperNacosAddr \/ WrapperServiceName
    \/ WrapperServiceAddr \/ WrapperPort \/ WrapperConstruct

SpecWrapper == InitWrapper /\ [][NextWrapper]_vars

\* ================================================================ properties
FramesOf(t) == {stack[t][i] : i \in DOMAIN stack[t]}
InFlightCalls ==
    {<<t, i>> \in Threads \X (1..8) : i \in DOMAIN stack[t] /\ InFlight(stack[t][i])}
AliveHb == {t \in HbThreads : IsAlive(t)}
\* The foreground call the main thread is in (the bottom frame of its stack).
InCall(fn) == stack[Main] # <<>> /\ stack[Main][1].fn = fn

\* C1: no two registry-client operations (add-instance, remove-instance,
\* send-heartbeat) of the controller are in progress at the same time.
C1_Serialized == Cardinality(InFlightCalls) <= 1

\* C2: at most one heartbeat thread is alive.
C2_AtMostOneHeartbeat == Cardinality(AliveHb) <= 1

\* C3: a stop() that follows a stop() issues no remove-instance call.
C3_SecondStopSilent ==
    (InCall("stop") /\ lastCall = "stop") => stack[Main][1].removes = 0

RwrFrames ==
    UNION {{f \in FramesOf(t) : f.fn = "register_with_retry"} : t \in Threads}
\* The heartbeat loop of thread t is at the statement pc (its pc stays at the
\* call while a callee runs).
HbAt(t, pc) == stack[t] # <<>> /\ stack[t][1].pc = pc
HbFrame(t) == stack[t][1]

\* C4: register_with_retry(retries >= 1) returns False after exactly retries
\* failed add-instance attempts, returns True after exactly k attempts when
\* the k-th is the first to succeed, makes no attempt after a success, and
\* sleeps once between two attempts and not after the last one.
C4_RetryContract ==
    \A f \in RwrFrames :
        f.retries >= 1 =>
            /\ f.adds <= f.retries
            /\ f.adds - f.fails \in {0, 1}
            /\ f.sleeps \in {f.adds - 1, f.adds}
            /\ (f.pc = "ret" /\ f.rv = "False") =>
                   f.adds = f.retries /\ f.fails = f.retries /\ f.sleeps = f.retries - 1
            /\ (f.pc = "ret" /\ f.rv = "True") =>
                   f.adds = f.fails + 1 /\ f.sleeps = f.adds - 1
            /\ f.pc = "ret" => f.rv \in {"True", "False"}
C4_AllAttemptsFailed ==
    \E f \in RwrFrames :
        f.pc = "ret" /\ f.rv = "False" /\ f.retries = 2 /\ f.adds = 2 /\ f.sleeps = 1

\* C5 as stated: self-healing begins exactly when a failed send has brought the
\* failure counter to heartbeat_max_failures: never below it, and every time.
C5_HealIffMax ==
    [][\A t \in HbThreads :
        /\ (~HbAt(t, "L203") /\ HbAt(t, "L203")') =>
               HbAt(t, "L194") /\ HbFrame(t).fail_count >= cfg.heartbeat_max_failures
        /\ (HbAt(t, "L194") /\ stack'[t] # stack[t]
                /\ HbFrame(t).fail_count >= cfg.heartbeat_max_failures) =>
               HbAt(t, "L203")']_vars
\* C5, amended: self-healing begins exactly when a failed send has brought the
\* failure counter to heartbeat_max_failures and the stop signal is not seen
\* during the retry wait that follows the failed send.
C5_HealIffMaxUnlessStopped ==
    [][\A t \in HbThreads :
        /\ (~HbAt(t, "L203") /\ HbAt(t, "L203")') =>
               /\ HbAt(t, "L194")
               /\ HbFrame(t).fail_count >= cfg.heartbeat_max_failures
               /\ ~stopEvent
        /\ (HbAt(t, "L194") /\ stack'[t] # stack[t] /\ ~stopEvent
                /\ HbFrame(t).fail_count >= cfg.heartbeat_max_failures) =>
               HbAt(t, "L203")'
        /\ (HbAt(t, "L194") /\ stack'[t] # stack[t] /\ stopEvent) =>
               stack'[t][1].pc = "ret"]_vars
C5_HealingAtMax ==
    \E t \in HbThreads :
        /\ HbAt(t, "L203")
        /\ cfg.heartbeat_max_failures = 2
        /\ HbFrame(t).fail_count = 2

\* C6: the failure counter of a heartbeat thread equals the number of failed
\* sends since the last successful send, the last successful self-healing or
\* the start of the thread.
C6_CounterIsConsecutive ==
    \A t \in HbThreads :
        IsAlive(t) => HbFrame(t).fail_count = HbFrame(t).consec
C6_CounterAtMax ==
    \E t \in HbThreads :
        /\ IsAlive(t)
        /\ HbFrame(t).fail_count = 2
        /\ cfg.heartbeat_max_failures = 2
        /\ HbAt(t, "L194")

\* C7: once the stop signal is set it is never cleared.
C7_StopSignalOneShot == [][stopEvent => stopEvent']_vars

\* C8: on a fresh controller, when every add-instance attempt of start() has
\* failed, start() returns without raising, registered is false and no
\* heartbeat thread has been created.
C8_FailedStart ==
    /\ (ncalls = 1 /\ InCall("start")
            /\ stack[Main][1].fails = cfg.register_retries) =>
           /\ exc[Main] = "none"
           /\ stack[Main][1].adds = cfg.register_retries
           /\ stack[Main][1].pc \in {"L227", "ret"}
           /\ ~registered
           /\ nthreads = 0
           /\ hbThread = 0
    /\ (ncalls = 1 /\ lastCall = "start" /\ ~registered) =>
           nthreads = 0 /\ hbThread = 0
C8_StartGaveUp ==
    /\ ncalls = 1
    /\ InCall("start")
    /\ stack[Main][1].pc = "ret"
    /\ cfg.register_retries = 2
    /\ stack[Main][1].fails = 2

\* C9: every call of stop(), whether made by the foreground, by __exit__ or
\* by _handle, makes exactly one _remove_once attempt (one remove-instance
\* call on the client when the client exists) before it returns, lets no
\* Exception out, and is never left waiting for a lock that the thread it
\* runs on already holds (a call in that position never returns).
C9_StopRemovesOnce ==
    \A i \in DOMAIN stack[Main] :
        stack[Main][i].fn = "stop" =>
            LET f == stack[Main][i] IN
            /\ exc[Main] # "Exception"
            /\ f.attempts <= 1
            /\ f.removes <= f.attempts
            /\ f.pc = "ret" => f.attempts = 1
            /\ ~(i = Len(stack[Main]) /\ f.pc = "L243" /\ evLock = Main)

\* C10: once control has left the scope, the handlers of SIGINT and SIGTERM
\* are those that were installed before the scope was entered.
C10_HandlersRestored ==
    (stack[Main] = <<>> /\ lastCall = "with" /\ exited = "running") =>
        handler = preScope

\* C11: with a non-ephemeral descriptor no heartbeat thread is created, so
\* send_heartbeat is never begun, whatever start() and stop() calls are made.
C11_NoHeartbeatWhenPersistent ==
    ~cfg.ephemeral =>
        \A t \in HbThreads :
            /\ ~IsAlive(t)
            /\ \A f \in FramesOf(t) :
                   ~(f.fn = "_heartbeat_loop" /\ f.pc \in {"L183", "L184"})
C11_PersistentRestarted ==
    /\ ~cfg.ephemeral
    /\ ncalls = 3
    /\ lastCall = "stop"
    /\ InCall("start")
    /\ stack[Main][1].pc = "ret"
    /\ registered

\* C12: a signal taken by the installed handler ends the process with
\* success status (sys.exit(0)) in every case.
C12_HandlerExitsWithSuccess == nsignals > 0 => exited \in {"running", "exit0"}

\* C13: at most one NacosClient is constructed for a controller; once it
\* exists every later _init_client (foreground or self-healing) keeps it.
C13_ClientBuiltOnce ==
    /\ built <= 1
    /\ client <=> built = 1
C13_HealingReusesClient ==
    \E t \in HbThreads :
        /\ built = 1
        /\ Len(stack[t]) = 3
        /\ stack[t][2].fn = "register_with_retry"
        /\ stack[t][3].fn = "_init_client"
        /\ stack[t][3].pc = "ret"

\* The texts int() accepts, written out: a sign or none, then digits.
DecimalTexts ==
    {sg \o d : sg \in {<<>>, <<"-">>, <<"+">>},
               d \in UNION {[1..n -> Digits \cap Chars] : n \in 1..(MaxAddrLen + 1)}}
\* The wrapper's arguments fail validation: no registry address, no service
\* name, no colon in service_addr, or a text after the last colon that is not
\* an integer.
InvalidArguments(w) ==
    \/ w.nacos_addr = <<>>
    \/ w.service_name = <<>>
    \/ \A i \in DOMAIN w.service_addr : w.service_addr[i] # ":"
    \/ \E k \in DOMAIN w.service_addr :
          /\ w.service_addr[k] = ":"
          /\ \A j \in DOMAIN w.service_addr : j > k => w.service_addr[j] # ":"
          /\ SubSeq(w.service_addr, k + 1, Len(w.service_addr)) \notin DecimalTexts

\* C14: when the wrapper is enabled and its arguments fail validation, no
\* controller is constructed and nothing of the controller runs; the wrapper
\* raises ValueError without calling the wrapped function when
\* raise_on_register_fail is true, and otherwise calls it exactly once.
C14_RejectedBeforeConstruction ==
    (wrap.pc # "none" /\ wrap.enabled /\ InvalidArguments(wrap)) =>
        /\ wrap.made = 0
        /\ wrap.pc \notin {"L409", "L429"}
        /\ ~client /\ built = 0
        /\ \A t \in Threads : stack[t] = <<>>
        /\ wrap.calls <= 1
        /\ wrap.pc = "done" =>
               IF wrap.raise_on_register_fail
               THEN wrap.out = "ValueError" /\ wrap.calls = 0
               ELSE wrap.out = "returned" /\ wrap.calls = 1
C14_BadPortPermissive ==
    /\ wrap.pc = "done"
    /\ wrap.enabled
    /\ wrap.nacos_addr # <<>>
    /\ wrap.service_name # <<>>
    /\ wrap.service_addr = <<"8", ":", "a">>
    /\ ~wrap.raise_on_register_fail
    /\ wrap.calls = 1

\* C15: once the wait for the heartbeat thread is over, stop() can make its
\* remove attempt by itself: the attempt never has to wait for the heartbeat
\* thread to take a step.
C15_StopNeverWaitsForHeartbeat ==
    (InCall("stop") /\ Top(Main).fn = "_remove_once" /\ Top(Main).pc = "L161") =>
        Acquirable(Main)

\* The bound on the failure counter keeps a thread from sending again.
AtCounterBound(t) ==
    HbAt(t, "L183") /\ HbFrame(t).fail_count >= cfg.heartbeat_max_failures + MaxOver

\* C16: while the stop signal stays set, registry calls come back and the
\* process goes on, a heartbeat thread terminates; at the first wait point
\* (the loop test, the interval wait, the retry wait) where it finds the
\* signal set it leaves the loop, and it begins no registry call afterwards.
C16_StoppedThreadTerminates ==
    /\ \A t \in HbThreads :
          (IsAlive(t) /\ stopEvent /\ ~AtCounterBound(t)) ~>
              (~IsAlive(t) \/ ~stopEvent \/ ~Running)
    /\ [][\A t \in HbThreads :
            /\ (stopEvent /\ stack'[t] # stack[t]
                  /\ (HbAt(t, "L174") \/ HbAt(t, "L176") \/ HbAt(t, "L194"))) =>
                   HbAt(t, "ret")'
            /\ (HbAt(t, "ret") /\ stack'[t] # stack[t]) => stack'[t] = <<>>]_vars

\* Self-healing's register_with_retry is about to return to the loop.
HealReturning(t) ==
    /\ Len(stack[t]) = 2
    /\ stack[t][2].fn = "register_with_retry"
    /\ stack[t][2].pc = "ret"

\* C17: when self-healing's re-registration returns, the failure counter
\* becomes zero if it succeeded and keeps its value if it failed; a failed
\* send that follows a failed self-healing (the counter is above the maximum)
\* starts self-healing again unless the stop signal is seen.
C17_CounterAfterHealing ==
    [][\A t \in HbThreads :
        /\ (HealReturning(t) /\ stack'[t] # stack[t]) =>
               /\ Len(stack'[t]) = 1
               /\ HbAt(t, "L174")'
               /\ stack'[t][1].fail_count =
                      IF stack[t][2].rv = "True" THEN 0 ELSE HbFrame(t).fail_count
        /\ (HbAt(t, "L194") /\ HbFrame(t).fail_count > cfg.heartbeat_max_failures
                /\ ~stopEvent /\ stack'[t] # stack[t]) =>
               HbAt(t, "L203")']_vars
C17_HealingAgain ==
    \E t \in HbThreads :
        /\ HbAt(t, "L203")
        /\ HbFrame(t).fail_count = cfg.heartbeat_max_failures + 1

\* C18: when the remove-instance call of self-healing succeeds, registered is
\* set to false.
C18_HealingRemoveClearsFlag ==
    [][\A t \in HbThreads :
        (HbAt(t, "L204") /\ HbAt(t, "L209")' /\ stack'[t][1].removed) =>
            ~registered']_vars

\* A membership call is in progress, or has succeeded and its update of the
\* flag (L135, L163) is still to come.
MembershipPending ==
    \E t \in Threads : \E f \in FramesOf(t) :
        \/ InFlight(f)
        \/ f.fn = "_register_once" /\ f.pc = "L135"
        \/ f.fn = "_remove_once" /\ f.pc = "L163"

\* C19: when no registry call is in progress and no flag update is pending,
\* registered is true exactly when the last membership call that succeeded
\* was an add-instance.
C19_FlagFollowsMembership ==
    ~MembershipPending => (registered <=> member = "add")

\* Thread t begins an add_naming_instance call in this step (L127-128).
BeginsAdd(t) ==
    /\ stack[t] # <<>> /\ stack'[t] # <<>>
    /\ Top(t).fn = "_register_once" /\ Top(t).pc = "L127"
    /\ stack'[t][Len(stack'[t])].fn = "_register_once"
    /\ stack'[t][Len(stack'[t])].pc = "L128"

\* C20: after stop() has returned and before the foreground calls the
\* controller again, no add-instance call is begun.
C20_NoAddAfterStop ==
    [][(lastCall = "stop" /\ stack[Main] = <<>>) =>
           \A t \in Threads : ~BeginsAdd(t)]_vars
====
